---- MODULE Spec2Model ----
(***************************************************************************)
(* State-machine model of the kChat backend for errbot                     *)
(* (src/err-backend-kchat/err-backend-kchat.py): the connection loop of    *)
(* serve_once, the event dispatcher and its handlers, and the outbound     *)
(* dispatcher (send_message, send_card, send_stream_request).              *)
(*                                                                         *)
(* Python values are represented as follows: a dict is a record in which a *)
(* missing key holds Absent; None is NoneV; a str that the code inspects   *)
(* character by character is a sequence of one-character strings; an       *)
(* exception that leaves a function is the name of its class in the field  *)
(* exc of the function's result (NoExc when it returns normally).          *)
(***************************************************************************)
EXTENDS Integers, Sequences, FiniteSets, TLC

VARIABLES
    event_handlers,   \* self.event_handlers: event type -> list of handlers
    pc,               \* position of serve_once: "idle", "try", "running"
    teamid,           \* self.teamid
    bot_identifier,   \* userid of self.bot_identifier, NoneV before login
    exits,            \* number of times control left the try block of serve_once
    disconnects,      \* number of disconnect_callback invocations
    exit_cause,       \* how the try block of serve_once was left last
    ret,              \* value returned by the last serve_once
    direct_cache,     \* lru_cache of get_direct_channel, least recent first
    op,               \* name of the operation performed last
    input,            \* its argument
    invoked,          \* handlers invoked by the last kchat_event_handler
    trace,            \* framework callbacks, platform calls and error logs of the last operation
    exc,              \* exception observed by the caller of the last operation
    stream,           \* the Stream of the last send_stream_request
    result            \* the value the last operation returned

vars == <<event_handlers, pc, teamid, bot_identifier, exits, disconnects,
          exit_cause, ret, direct_cache, op, input, invoked, trace, exc, stream,
          result>>

session == <<pc, teamid, bot_identifier, exits, disconnects, exit_cause, ret>>

lastcall == <<op, input, invoked, trace, exc, stream, result>>

----------------------------------------------------------------------------
\* Bounds of the model

MaxRegistered == 2      \* register_handler calls
MaxSessions   == 2      \* serve_once calls that reach the try block
MaxBody       == 5      \* characters of a rendered message body

----------------------------------------------------------------------------
\* Python values

Absent == "<absent>"
NoneV  == "<None>"
NoExc  == "none"

\* errbot.backends.base.Stream: its status and the file_id the backend sets
NoStream == [status |-> "none", file_id |-> NoneV]

Call(c, a, r) == [call |-> c, arg |-> a, res |-> r]

Ret(t, c, e) == [trace |-> t, cache |-> c, exc |-> e]

\* Presence states of errbot.backends.base
ONLINE  == "online"
AWAY    == "away"
OFFLINE == "offline"
DND     == "dnd"

\* Faults the platform client raises on a call
InvalidOrMissingParameters == "InvalidOrMissingParameters"
NotEnoughPermissions       == "NotEnoughPermissions"
ContentTooLarge            == "ContentTooLarge"
FeatureDisabled            == "FeatureDisabled"
NoAccessTokenProvided      == "NoAccessTokenProvided"

----------------------------------------------------------------------------
\* Data the environment supplies

TeamIds   == {"T1", "T2"}
UserIds   == {"bot", "U1"}
SessionTeam == "T1"
SessionUser == "bot"

PluginHandlers == {"hA", "hB"}
HELLO == "pusher_internal:subscription_succeeded"
BuiltinEvents == {"posted", "status_change", HELLO, "user_added", "user_removed"}

\* A decoded envelope; a key the JSON object lacks holds Absent
NoPost == [message |-> Absent, user_id |-> Absent, id |-> Absent,
           type |-> Absent, root_id |-> Absent, file_ids |-> Absent]

NoEnv == [event |-> Absent, team_id |-> Absent, channel_id |-> Absent,
          channel_type |-> Absent, channel_name |-> Absent,
          has_post |-> FALSE, post |-> NoPost, user_id |-> Absent,
          has_mentions |-> FALSE, mentions |-> <<>>, status |-> Absent]

----------------------------------------------------------------------------
\* Text: a str the code parses is a sequence of one-character strings

RECURSIVE Str(_)
\* the str with the characters cs
Str(cs) == IF cs = <<>> THEN "" ELSE Head(cs) \o Str(Tail(cs))

RECURSIVE lstrip(_, _)
\* str.lstrip(chars): drop the leading characters that are in chars
lstrip(cs, chars) ==
    IF cs # <<>> /\ Head(cs) \in chars THEN lstrip(Tail(cs), chars) ELSE cs

RECURSIVE rstrip(_, _)
rstrip(cs, chars) ==
    IF cs # <<>> /\ cs[Len(cs)] \in chars
    THEN rstrip(SubSeq(cs, 1, Len(cs) - 1), chars) ELSE cs

\* str.strip() with no argument strips whitespace
strip(cs) == rstrip(lstrip(cs, {" "}), {" "})

startswith(cs, c) == cs # <<>> /\ Head(cs) = c

----------------------------------------------------------------------------
\* The platform: what one call answers is chosen by the environment.  An
\* oracle o fixes, for the duration of one operation, the answer of every
\* call the operation can make.

Usernames    == {"a", "g"}
ChannelNames == {"r"}

UserAnswers    == {"U1", NoneV, InvalidOrMissingParameters}
ChannelAnswers == {"C1", Absent, NotEnoughPermissions}
DirectAnswers  == {"ok", InvalidOrMissingParameters, NotEnoughPermissions}
PostAnswers    == {"ok", "ResourceNotFound"}
StatusAnswers  == {"ok", NotEnoughPermissions}

IsFault(a) == a \in {InvalidOrMissingParameters, NotEnoughPermissions,
                     ContentTooLarge, FeatureDisabled, NoAccessTokenProvided,
                     "ResourceNotFound"}

\* id of the direct channel the platform keeps for two users
DirectId(uid, other_user_id) == "D:" \o uid \o ":" \o other_user_id

\* property userid: f"{self.bot_identifier.userid}"
userid == bot_identifier

----------------------------------------------------------------------------
\* A local variable: Bind(e, LAMBDA x : body) is body with x bound to the
\* value of e
Bind(v, F(_)) == F(v)

Val(v, t, c, e) == [val |-> v, trace |-> t, cache |-> c, exc |-> e]

----------------------------------------------------------------------------
\* Identifier resolution

\* driver.users.get_user_by_username(username=n)
get_user_by_username(n, o) == IF n \in DOMAIN o.user THEN o.user[n] ELSE NoneV

\* the lookup, had it handed on the None of the platform
UsernameOrNone(name, cache, o) ==
    Bind(Str(lstrip(name, {"@"})), LAMBDA n :
    Bind(get_user_by_username(n, o), LAMBDA user :
    Bind(<<Call("get_user_by_username", n, user)>>, LAMBDA t :
        IF IsFault(user) THEN Val(NoneV, t, cache, user)
        ELSE Val(user, t, cache, NoExc))))

\* username_to_userid(name): the user id in field val
username_to_userid(name, cache, o) ==
    Bind(Str(lstrip(name, {"@"})), LAMBDA n :
    Bind(get_user_by_username(n, o), LAMBDA user :
    Bind(<<Call("get_user_by_username", n, user)>>, LAMBDA t :
        IF IsFault(user) THEN Val(NoneV, t, cache, user)
        ELSE IF user = NoneV THEN Val(NoneV, t, cache, "UserDoesNotExistError")
        ELSE Val(user, t, cache, NoExc))))

\* driver.channels.get_channel_by_name(channel_name=n): the "id" of the answer
get_channel_by_name(n, o) == IF n \in DOMAIN o.channel THEN o.channel[n] ELSE Absent

\* channelname_to_channelid(name): the channel id in field val
channelname_to_channelid(name, cache, o) ==
    Bind(Str(name), LAMBDA n :
    Bind(get_channel_by_name(n, o), LAMBDA chan :
    Bind(<<Call("get_channel_by_name", n, chan)>>, LAMBDA t :
        IF IsFault(chan) THEN Val(NoneV, t, cache, chan)
        ELSE IF chan = Absent THEN Val(NoneV, t, cache, "RoomDoesNotExistError")
        ELSE Val(chan, t, cache, NoExc))))

\* functools.lru_cache(1024)
maxsize == 1024

CacheIndex(cache, key) ==
    IF \E i \in 1..Len(cache) : cache[i].key = key
    THEN CHOOSE i \in 1..Len(cache) : cache[i].key = key
    ELSE 0

Without(s, i) == SubSeq(s, 1, i - 1) \o SubSeq(s, i + 1, Len(s))

\* the cache with one more entry, the least recently used one dropped when full
CachePut(cache, new) ==
    IF Len(cache) >= maxsize THEN Tail(cache) \o <<new>> ELSE cache \o <<new>>

\* the method, had its cache kept the failure of a call as well
GetDirectChannelCachingFailure(uid, other_user_id, cache, o) ==
    Bind(<<uid, other_user_id>>, LAMBDA key :
    Bind(CacheIndex(cache, key), LAMBDA i :
    Bind(<<Call("create_direct_message_channel", key, o.direct)>>, LAMBDA t :
        IF i # 0
        THEN Val(NoneV, <<>>, Without(cache, i) \o <<cache[i]>>,
                 IF cache[i].value = NoneV THEN "RoomDoesNotExistError" ELSE NoExc)
        ELSE IF o.direct \in {InvalidOrMissingParameters, NotEnoughPermissions}
        THEN Val(NoneV, t, CachePut(cache, [key |-> key, value |-> NoneV]),
                 "RoomDoesNotExistError")
        ELSE Val(DirectId(uid, other_user_id), t,
                 CachePut(cache, [key |-> key, value |-> DirectId(uid, other_user_id)]),
                 NoExc))))

\* the method without its lru_cache
GetDirectChannelUncached(uid, other_user_id, cache, o) ==
    Bind(<<Call("create_direct_message_channel", <<uid, other_user_id>>, o.direct)>>,
         LAMBDA t :
            IF o.direct \in {InvalidOrMissingParameters, NotEnoughPermissions}
            THEN Val(NoneV, t, cache, "RoomDoesNotExistError")
            ELSE Val(DirectId(uid, other_user_id), t, cache, NoExc))

\* get_direct_channel(userid, other_user_id) behind its lru_cache: a hit
\* answers from the cache and makes the entry the most recent one; a miss
\* calls the platform and stores the answer unless the call raised.  The id
\* of the channel is in field val.
get_direct_channel(uid, other_user_id, cache, o) ==
    Bind(<<uid, other_user_id>>, LAMBDA key :
    Bind(CacheIndex(cache, key), LAMBDA i :
    Bind(<<Call("create_direct_message_channel", key, o.direct)>>, LAMBDA t :
        IF i # 0
        THEN Val(cache[i].value, <<>>, Without(cache, i) \o <<cache[i]>>, NoExc)
        ELSE IF o.direct \in {InvalidOrMissingParameters, NotEnoughPermissions}
        THEN Val(NoneV, t, cache, "RoomDoesNotExistError")
        ELSE Val(DirectId(uid, other_user_id), t,
                 CachePut(cache, [key |-> key, value |-> DirectId(uid, other_user_id)]),
                 NoExc))))

KchatRoom(channelid) == [kind |-> "KchatRoom", id |-> channelid]

KchatPerson(uid, channelid) ==
    [kind |-> "KchatPerson", userid |-> uid, channelid |-> channelid]

\* build_identifier, lines 283-287 and 299: the text after "~" names a channel
BuildRoom(name, cache, o) ==
    Bind(channelname_to_channelid(name, cache, o), LAMBDA c :
        IF c.exc # NoExc THEN c
        ELSE IF c.val # NoneV THEN Val(KchatRoom(c.val), c.trace, cache, NoExc)
        ELSE Val(NoneV, c.trace, cache, "Exception"))

\* build_identifier, lines 292-299: u is the outcome of finding the user id
BuildPerson(u, o) ==
    IF u.exc # NoExc THEN u
    ELSE IF u.val = NoneV THEN Val(NoneV, u.trace, u.cache, "Exception")
    ELSE Bind(get_direct_channel(userid, u.val, u.cache, o), LAMBDA d :
            IF d.exc # NoExc THEN Val(NoneV, u.trace \o d.trace, d.cache, d.exc)
            ELSE Val(KchatPerson(u.val, d.val), u.trace \o d.trace, d.cache, NoExc))

\* build_identifier(txtrep): the identifier in field val
build_identifier(txtrep, cache, o) ==
    Bind(strip(txtrep), LAMBDA t :
        IF startswith(t, "~") THEN BuildRoom(Tail(t), cache, o)
        ELSE BuildPerson(IF startswith(t, "@")
                         THEN username_to_userid(Tail(t), cache, o)
                         ELSE Val(Str(t), <<>>, cache, NoExc), o))

\* one more element of the list comprehension of line 302
MentionsCons(b, r) ==
    Val(<<b.val>> \o r.val, b.trace \o r.trace, r.cache, r.exc)

RECURSIVE mentions_build_identifier(_, _, _)
\* mentions_build_identifier(mentions): the list of identifiers in field val;
\* the first mention that fails ends the comprehension
mentions_build_identifier(mentions, cache, o) ==
    IF mentions = <<>> THEN Val(<<>>, <<>>, cache, NoExc)
    ELSE Bind(build_identifier(Head(mentions), cache, o), LAMBDA b :
            IF b.exc # NoExc THEN Val(<<>>, b.trace, b.cache, b.exc)
            ELSE MentionsCons(b, mentions_build_identifier(Tail(mentions), b.cache, o)))

----------------------------------------------------------------------------
\* Event handlers.  Each takes the decoded envelope, the direct-channel
\* cache as it finds it and the platform's answers, and yields Ret(trace,
\* cache, exc): the callbacks, platform calls and error logs it made, the
\* cache as it leaves it, and the exception that left it (NoExc for none).

\* _room_joined_event_handler without the comparison of line 135
RoomJoinedAnyUser(message, cache, o) ==
    IF message.user_id = Absent THEN Ret(<<>>, cache, "KeyError")
    ELSE Ret(<<Call("callback_room_joined", <<>>, "ok")>>, cache, NoExc)

_room_joined_event_handler(message, cache, o) ==
    IF message.user_id = Absent THEN Ret(<<>>, cache, "KeyError")
    ELSE IF message.user_id = userid
    THEN Ret(<<Call("callback_room_joined", <<>>, "ok")>>, cache, NoExc)
    ELSE Ret(<<>>, cache, NoExc)

_room_left_event_handler(message, cache, o) ==
    IF message.user_id = Absent THEN Ret(<<>>, cache, "KeyError")
    ELSE IF message.user_id = userid
    THEN Ret(<<Call("callback_room_left", <<>>, "ok")>>, cache, NoExc)
    ELSE Ret(<<>>, cache, NoExc)

\* The Message of lines 192-230; v holds the locals text, post_id, file_ids,
\* userid, channelid and channel
BuildMessage(data, v, root_id, parent) ==
    [text |-> v.text, parent |-> parent, id |-> v.post_id, root_id |-> root_id,
     attachments |-> v.file_ids,
     frm |-> IF data.channel_type = "D"
             THEN KchatPerson(v.userid, v.channelid)
             ELSE [kind |-> "KchatRoomOccupant", userid |-> v.userid,
                   channelid |-> v.channelid],
     to  |-> IF data.channel_type = "D"
             THEN KchatPerson(bot_identifier, v.channelid)
             ELSE [kind |-> "KchatRoom", name |-> v.channel]]

\* the two callbacks, had the mention callback not looked at the list
MentionAlways(msg, mentions) ==
    <<Call("callback_message", msg, "ok"),
      Call("callback_mention", [msg |-> msg, mentions |-> mentions], "ok")>>

\* lines 232-235: the two callbacks
Callbacks(msg, mentions) ==
    <<Call("callback_message", msg, "ok")>>
    \o (IF mentions # <<>>
        THEN <<Call("callback_mention", [msg |-> msg, mentions |-> mentions], "ok")>>
        ELSE <<>>)

\* the same, had a failed lookup of the parent been passed over
WithParentSwallowed(data, v, m, root_id, o) ==
    IF root_id = ""
    THEN Ret(m.trace \o Callbacks(BuildMessage(data, v, root_id, NoneV), m.val),
             m.cache, NoExc)
    ELSE Ret(m.trace \o <<Call("get_post", root_id, o.post)>>
               \o Callbacks(BuildMessage(data, v, root_id,
                                         IF IsFault(o.post) THEN NoneV ELSE root_id),
                            m.val),
             m.cache, NoExc)

\* lines 190-235, m being the outcome of the mention resolution and root_id
\* the thread root of the post
WithParent(data, v, m, root_id, o) ==
    IF root_id = ""
    THEN Ret(m.trace \o Callbacks(BuildMessage(data, v, root_id, NoneV), m.val),
             m.cache, NoExc)
    ELSE IF IsFault(o.post)
    THEN Ret(m.trace \o <<Call("get_post", root_id, o.post)>>, m.cache, o.post)
    ELSE Ret(m.trace \o <<Call("get_post", root_id, o.post)>>
               \o Callbacks(BuildMessage(data, v, root_id, root_id), m.val),
             m.cache, NoExc)

\* lines 185-235, m being the outcome of the mention resolution
AfterMentions(data, v, m, o) ==
    IF m.exc # NoExc THEN Ret(m.trace, m.cache, m.exc)
    \* line 190 reads the local post, bound only when the event has a "post"
    ELSE IF ~data.has_post THEN Ret(m.trace, m.cache, "UnboundLocalError")
    ELSE WithParent(data, v, m,
                    IF data.post.root_id = Absent THEN "" ELSE data.post.root_id, o)

\* the same, had the sender not been asked for
DeliverUnchecked(data, v, cache, o) ==
    AfterMentions(data, v,
                  IF data.has_mentions
                  THEN mentions_build_identifier(data.mentions, cache, o)
                  ELSE Val(<<>>, <<>>, cache, NoExc), o)

\* lines 178-235, v holding the locals
DeliverMessage(data, v, cache, o) ==
    IF v.userid \in {NoneV, ""}
    THEN Ret(<<Call("log.error", "no userid", "ok")>>, cache, NoExc)
    ELSE AfterMentions(data, v,
                       IF data.has_mentions
                       THEN mentions_build_identifier(data.mentions, cache, o)
                       ELSE Val(<<>>, <<>>, cache, NoExc), o)

\* the locals of _message_event_handler after line 180
Locals(data) ==
    [channelid |-> data.channel_id,
     channel   |-> IF data.channel_type # "D" THEN data.channel_name
                   ELSE data.channel_id,
     text      |-> IF data.has_post THEN data.post.message ELSE "",
     post_id   |-> IF data.has_post THEN data.post.id ELSE "",
     file_ids  |-> IF data.has_post THEN data.post.file_ids ELSE <<>>,
     userid    |-> IF data.user_id # Absent THEN data.user_id
                   ELSE IF data.has_post THEN data.post.user_id ELSE NoneV]

\* lines 152-235: the handler past the team check
AfterTeamCheck(data, cache, o) ==
    IF data.channel_id = Absent
    THEN Ret(<<Call("log.error", "no channelid", "ok")>>, cache, NoExc)
    ELSE IF data.channel_type = Absent THEN Ret(<<>>, cache, "KeyError")
    ELSE IF data.channel_type # "D" /\ data.channel_name = Absent
    THEN Ret(<<>>, cache, "KeyError")
    ELSE IF data.has_post
            /\ Absent \in {data.post.message, data.post.user_id, data.post.id}
    THEN Ret(<<>>, cache, "KeyError")
    ELSE IF data.has_post /\ data.post.type = "system_add_remove"
    THEN Ret(<<Call("log.info", "system", "ok")>>, cache, NoExc)
    ELSE DeliverMessage(data, Locals(data), cache, o)

\* _message_event_handler with line 148 comparing the team ids only
TeamCheckWithoutBypass(data, cache, o) ==
    IF data.team_id = Absent THEN Ret(<<>>, cache, "KeyError")
    ELSE IF teamid # data.team_id
    THEN Ret(<<Call("log.info", "another team", "ok")>>, cache, NoExc)
    ELSE AfterTeamCheck(data, cache, o)

_message_event_handler(data, cache, o) ==
    IF data.team_id = Absent THEN Ret(<<>>, cache, "KeyError")
    \* In some cases (direct messages) team_id is an empty string
    ELSE IF data.team_id # "" /\ teamid # data.team_id
    THEN Ret(<<Call("log.info", "another team", "ok")>>, cache, NoExc)
    ELSE AfterTeamCheck(data, cache, o)

\* the status, had the platform string been handed on untranslated
StatusUnmapped(status) == status

\* lines 240-251: the presence state of a platform status string
StatusOf(status) ==
    IF status = "online" THEN ONLINE
    ELSE IF status = "away" THEN AWAY
    ELSE IF status = "offline" THEN OFFLINE
    ELSE IF status = "dnd" THEN DND
    ELSE ONLINE

_status_change_event_handler(message, cache, o) ==
    IF message.user_id = Absent \/ message.status = Absent
    THEN Ret(<<>>, cache, "KeyError")
    ELSE Ret((IF message.status \in {"online", "away", "offline", "dnd"} THEN <<>>
              ELSE <<Call("log.error", "unknown status", "ok")>>)
             \o <<Call("callback_presence",
                       [identifier |-> message.user_id,
                        status |-> StatusOf(message.status)], "ok")>>,
             cache, NoExc)

\* change_presence(status): one status-update call to the platform
change_presence(status, cache, o) ==
    Ret(<<Call("update_user_status",
               [user_id |-> bot_identifier, status |-> status], o.status)>>,
        cache, IF IsFault(o.status) THEN o.status ELSE NoExc)

\* first, then the operation that yields next
Then(first, next) == Ret(first \o next.trace, next.cache, next.exc)

\* the handler, had it told the platform before the framework
HelloPlatformFirst(message, cache, o) ==
    Bind(change_presence(ONLINE, cache, o), LAMBDA c :
        IF c.exc # NoExc THEN c
        ELSE Ret(c.trace \o <<Call("connect_callback", <<>>, "ok"),
                               Call("callback_presence",
                                    [identifier |-> bot_identifier, status |-> ONLINE],
                                    "ok")>>,
                 c.cache, NoExc))

_hello_event_handler(message, cache, o) ==
    Then(<<Call("connect_callback", <<>>, "ok"),
           Call("callback_presence",
                [identifier |-> bot_identifier, status |-> ONLINE], "ok")>>,
         change_presence(ONLINE, cache, o))

----------------------------------------------------------------------------
\* Event dispatcher

\* __init__, lines 75-81
DefaultHandlers ==
    [e \in BuiltinEvents |->
        CASE e = "posted"        -> <<"_message_event_handler">>
          [] e = "status_change" -> <<"_status_change_event_handler">>
          [] e = HELLO           -> <<"_hello_event_handler">>
          [] e = "user_added"    -> <<"_room_joined_event_handler">>
          [] e = "user_removed"  -> <<"_room_left_event_handler">>]

\* register_handler(event, handler) on the registry handlers
register_handler(handlers, event, handler) ==
    IF event \in DOMAIN handlers
    THEN [handlers EXCEPT ![event] = Append(@, handler)]
    ELSE [e \in DOMAIN handlers \cup {event} |->
             IF e = event THEN <<handler>> ELSE handlers[e]]

\* event_handler(payload) for one entry of the registry; a handler that a
\* plugin registered raises or not as the environment chooses
CallHandler(h, message, cache, o) ==
    CASE h = "_message_event_handler"       -> _message_event_handler(message, cache, o)
      [] h = "_status_change_event_handler" -> _status_change_event_handler(message, cache, o)
      [] h = "_hello_event_handler"         -> _hello_event_handler(message, cache, o)
      [] h = "_room_joined_event_handler"   -> _room_joined_event_handler(message, cache, o)
      [] h = "_room_left_event_handler"     -> _room_left_event_handler(message, cache, o)
      [] OTHER -> Ret(<<>>, cache, IF h \in o.raises THEN "Exception" ELSE NoExc)

Done(invoked_, trace_, cache, e) ==
    [invoked |-> invoked_, trace |-> trace_, cache |-> cache, exc |-> e]

\* the loop of lines 127-131 without its try/except: the exception of a
\* handler ends the loop and leaves kchat_event_handler
Unguarded(h, r, rest) ==
    IF r.exc # NoExc
    THEN Done(<<[handler |-> h, exc |-> r.exc]>>, r.trace, r.cache, r.exc)
    ELSE Done(<<[handler |-> h, exc |-> r.exc]>> \o rest.invoked,
              r.trace \o rest.trace, rest.cache, rest.exc)

\* lines 128-131: the outcome r of handler h inside try/except Exception,
\* which logs the exception and goes on with the rest of the list
Guarded(h, r, rest) ==
    Done(<<[handler |-> h, exc |-> r.exc]>> \o rest.invoked,
         r.trace
           \o (IF r.exc # NoExc THEN <<Call("log.exception", h, r.exc)>> ELSE <<>>)
           \o rest.trace,
         rest.cache, rest.exc)

RECURSIVE HandlerLoop(_, _, _, _)
\* lines 127-131: every handler of the list in turn
HandlerLoop(hs, message, cache, o) ==
    IF hs = <<>> THEN Done(<<>>, <<>>, cache, NoExc)
    ELSE Bind(CallHandler(Head(hs), message, cache, o), LAMBDA r :
            Guarded(Head(hs), r, HandlerLoop(Tail(hs), message, r.cache, o)))

\* json.loads(payload): a payload that is no JSON text raises
json_loads(payload) ==
    IF payload.kind = "malformed"
    THEN [val |-> NoEnv, exc |-> "JSONDecodeError"]
    ELSE [val |-> payload.env, exc |-> NoExc]

\* lines 116-131 with self.event_handlers[event] for line 121
RouteBySubscript(j, handlers, cache, o) ==
    IF j.exc # NoExc THEN Done(<<>>, <<>>, cache, j.exc)
    ELSE IF j.val.event = Absent
    THEN Done(<<>>, <<Call("log.debug", "no event", "ok")>>, cache, NoExc)
    ELSE IF j.val.event \notin DOMAIN handlers
    THEN Done(<<>>, <<>>, cache, "KeyError")
    ELSE HandlerLoop(handlers[j.val.event], j.val, cache, o)

\* lines 116-131, j being the outcome of json.loads
Route(j, handlers, cache, o) ==
    IF j.exc # NoExc THEN Done(<<>>, <<>>, cache, j.exc)
    ELSE IF j.val.event = Absent
    THEN Done(<<>>, <<Call("log.debug", "no event", "ok")>>, cache, NoExc)
    ELSE IF j.val.event \notin DOMAIN handlers
    THEN Done(<<>>, <<Call("log.debug", "no handlers", "ok")>>, cache, NoExc)
    ELSE HandlerLoop(handlers[j.val.event], j.val, cache, o)

\* kchat_event_handler(payload) with the registry handlers
kchat_event_handler(payload, handlers, cache, o) ==
    IF payload.kind = "empty" THEN Done(<<>>, <<>>, cache, NoExc)
    ELSE Route(json_loads(payload), handlers, cache, o)

----------------------------------------------------------------------------
\* serve_once

\* lines 340-347 with the callback after the try statement instead of in its
\* finally clause: the return of line 342 skips it
LeaveTryNoFinally(cause) ==
    [ret |-> IF cause = "KeyboardInterrupt" THEN "True" ELSE NoneV,
     disconnect_callback |-> IF cause = "KeyboardInterrupt" THEN 0 ELSE 1]

\* lines 340-347: the except and finally clauses, for the way the try block
\* was left ("stop": run_forever returned): the value serve_once returns and
\* the number of disconnect_callback invocations
LeaveTry(cause) ==
    [ret |-> IF cause = "KeyboardInterrupt" THEN "True" ELSE NoneV,
     disconnect_callback |-> 1]

----------------------------------------------------------------------------
\* kchatRoomOccupant.py

\* KchatRoomOccupant(client, teamid, userid, channelid, bot): the room of
\* the occupant is KchatRoom(channelid=channelid, ...)
KchatRoomOccupant(tid, uid, channelid) ==
    [kind |-> "KchatRoomOccupant", teamid |-> tid, userid |-> uid,
     room |-> KchatRoom(channelid)]

\* isinstance(other, RoomOccupant)
IsRoomOccupantObject(other) == other.kind = "KchatRoomOccupant"

\* the comparison, had it looked at the user only
EqByUserOnly(self, other) ==
    IF ~IsRoomOccupantObject(other)
    THEN [val |-> FALSE, trace |-> <<Call("log.warning", "compare", "ok")>>]
    ELSE [val |-> other.userid = self.userid, trace |-> <<>>]

\* KchatRoomOccupant.__eq__(self, other)
__eq__(self, other) ==
    IF ~IsRoomOccupantObject(other)
    THEN [val |-> FALSE, trace |-> <<Call("log.warning", "compare", "ok")>>]
    ELSE [val |-> other.room.id = self.room.id /\ other.userid = self.userid,
          trace |-> <<>>]

----------------------------------------------------------------------------
\* Message body chunker

\* The backquote character of the fence; a string of the lexer cannot hold
\* the character itself
Tick       == "^"
Fence      == <<Tick, Tick, Tick>>
OpenFence  == <<Tick, Tick, Tick, "\n">>
CloseFence == <<"\n", Tick, Tick, Tick, "\n">>

\* set_message_size_limit(limit=16377, hard_limit=16383): the limit handed
\* to the splitter and the cap of the platform on one message
limit      == 16377
hard_limit == 16383

\* the splitter limit self.message_size_limit (16377 in the code), scaled
\* to the bodies of the model
message_size_limit == 2

\* str.startswith of the fence
StartsWithFence(cs) == Len(cs) >= 3 /\ SubSeq(cs, 1, 3) = Fence

RECURSIVE CountFence(_)
\* str.count of the fence: occurrences that do not overlap, from the left
CountFence(cs) ==
    IF Len(cs) < 3 THEN 0
    ELSE IF SubSeq(cs, 1, 3) = Fence THEN 1 + CountFence(SubSeq(cs, 4, Len(cs)))
    ELSE CountFence(Tail(cs))

RECURSIVE split_string_after(_, _)
\* errbot.utils.split_string_after(str_, n): the chunks str_[0:n],
\* str_[n:2n], ...; one empty chunk for an empty str_
split_string_after(cs, n) ==
    IF Len(cs) <= n THEN <<cs>>
    ELSE <<SubSeq(cs, 1, n)>> \o split_string_after(SubSeq(cs, n + 1, Len(cs)), n)

\* a part whose open fixed block stays open
LeaveOpen(part) == part

\* lines 512-513 and 523-524: close an open fixed block
CloseOpenBlock(part) ==
    IF CountFence(part) % 2 # 0 THEN part \o CloseFence ELSE part

\* lines 516-524 for one part
FixPart(part, fixed_format) ==
    CloseOpenBlock(IF fixed_format /\ ~StartsWithFence(part)
                   THEN OpenFence \o part ELSE part)

RECURSIVE FixParts(_, _)
\* lines 515-524
FixParts(parts, fixed_format) ==
    IF parts = <<>> THEN <<>>
    ELSE <<FixPart(Head(parts), fixed_format)>> \o FixParts(Tail(parts), fixed_format)

\* lines 510-526, parts being the chunks of the splitter
PostProcess(body, parts) ==
    IF Len(parts) = 1 THEN <<CloseOpenBlock(parts[1])>>
    ELSE FixParts(parts, StartsWithFence(body))

\* prepare_message_body(body, size_limit)
prepare_message_body(body, size_limit) ==
    PostProcess(body, split_string_after(body, size_limit))

----------------------------------------------------------------------------
\* Outbound dispatcher

IsRoom(to)         == to.kind = "KchatRoom"
IsRoomOccupant(to) == to.kind = "KchatRoomOccupant"

\* channelid_to_channelname(channelid): the value is not used by its caller
channelid_to_channelname(channelid, cache, o) ==
    Bind(<<Call("get_channel", channelid, o.get_channel)>>, LAMBDA t :
        IF IsFault(o.get_channel) THEN Val(NoneV, t, cache, o.get_channel)
        ELSE IF o.get_channel = Absent
        THEN Val(NoneV, t, cache, "RoomDoesNotExistError")
        ELSE Val(o.get_channel, t, cache, NoExc))

\* lines 366-369: the direct channel to the user that u holds
DivertToPrivate(u, o) ==
    IF u.exc # NoExc THEN u
    ELSE Bind(get_direct_channel(userid, u.val, u.cache, o), LAMBDA d :
            Val(d.val, u.trace \o d.trace, d.cache, d.exc))

\* the destination, had a room occupant been taken for a plain user
PrepareWithoutDivert(message, cache, o) ==
    IF IsRoom(message.to)
    THEN IF message.to.name # ""
         THEN Val(message.to.id, <<>>, cache, NoExc)
         ELSE Bind(channelid_to_channelname(message.to.id, cache, o), LAMBDA n :
                 Val(IF n.exc = NoExc THEN message.to.id ELSE NoneV,
                     n.trace, cache, n.exc))
    ELSE Val(message.to.channelid, <<>>, cache, NoExc)

\* _prepare_message(message): to_channel_id in field val
_prepare_message(message, cache, o) ==
    IF IsRoom(message.to)
    THEN IF message.to.name # ""
         THEN Val(message.to.id, <<>>, cache, NoExc)
         ELSE Bind(channelid_to_channelname(message.to.id, cache, o), LAMBDA n :
                 Val(IF n.exc = NoExc THEN message.to.id ELSE NoneV,
                     n.trace, cache, n.exc))
    ELSE IF IsRoomOccupant(message.to)
    THEN DivertToPrivate(username_to_userid(message.to.username, cache, o), o)
    ELSE Val(message.to.channelid, <<>>, cache, NoExc)

\* Does create_post number k of the operation raise, and what
PostAnswer(k, o) == IF o.fail_at = k THEN o.fault ELSE "ok"

RECURSIVE PostPartsRootOnFirst(_, _, _, _, _)
\* the loop, had only the first part carried the thread root
PostPartsRootOnFirst(parts, to_channel_id, root_id, k, o) ==
    IF parts = <<>> THEN [trace |-> <<>>, exc |-> NoExc]
    ELSE Bind(Call("create_post",
                   [channel_id |-> to_channel_id, message |-> Head(parts),
                    root_id |-> root_id],
                   PostAnswer(k, o)), LAMBDA c :
            IF c.res # "ok" THEN [trace |-> <<c>>, exc |-> c.res]
            ELSE Bind(PostPartsRootOnFirst(Tail(parts), to_channel_id, NoneV, k + 1, o),
                      LAMBDA r : [trace |-> <<c>> \o r.trace, exc |-> r.exc]))

RECURSIVE PostPartsPastFailure(_, _, _, _, _)
\* the loop, had it gone on to the next part after a call that raised
PostPartsPastFailure(parts, to_channel_id, root_id, k, o) ==
    IF parts = <<>> THEN [trace |-> <<>>, exc |-> NoExc]
    ELSE Bind(Call("create_post",
                   [channel_id |-> to_channel_id, message |-> Head(parts),
                    root_id |-> root_id],
                   PostAnswer(k, o)), LAMBDA c :
            Bind(PostPartsPastFailure(Tail(parts), to_channel_id, root_id, k + 1, o),
                 LAMBDA r : [trace |-> <<c>> \o r.trace,
                             exc |-> IF c.res # "ok" THEN c.res ELSE r.exc]))

RECURSIVE PostParts(_, _, _, _, _)
\* lines 391-398: one create_post for each part, from call number k on; the
\* first call that raises ends the loop
PostParts(parts, to_channel_id, root_id, k, o) ==
    IF parts = <<>> THEN [trace |-> <<>>, exc |-> NoExc]
    ELSE Bind(Call("create_post",
                   [channel_id |-> to_channel_id, message |-> Head(parts),
                    root_id |-> root_id],
                   PostAnswer(k, o)), LAMBDA c :
            IF c.res # "ok" THEN [trace |-> <<c>>, exc |-> c.res]
            ELSE Bind(PostParts(Tail(parts), to_channel_id, root_id, k + 1, o),
                      LAMBDA r : [trace |-> <<c>> \o r.trace, exc |-> r.exc]))

\* lines 387-389
RootId(message) == IF message.has_parent THEN message.parent_root ELSE NoneV

\* lines 399-403: the except clause.  bound tells whether to_name was
\* assigned at line 377; the clause reads it for its log message
ExceptSend(e, bound) ==
    IF e = NoExc THEN [trace |-> <<>>, exc |-> NoExc]
    ELSE IF e \in {InvalidOrMissingParameters, NotEnoughPermissions}
    THEN IF bound THEN [trace |-> <<Call("log.exception", "send_message", e)>>,
                        exc |-> NoExc]
         ELSE [trace |-> <<>>, exc |-> "UnboundLocalError"]
    ELSE [trace |-> <<>>, exc |-> e]

\* lines 377-403, prep being the outcome of _prepare_message and posts that
\* of the loop over the parts
FinishSend(prep, posts) ==
    IF prep.exc # NoExc
    THEN Bind(ExceptSend(prep.exc, FALSE), LAMBDA x :
            Ret(prep.trace \o x.trace, prep.cache, x.exc))
    ELSE Bind(ExceptSend(posts.exc, TRUE), LAMBDA x :
            Ret(prep.trace \o posts.trace \o x.trace, prep.cache, x.exc))

\* lines 377-398, prep being the outcome of _prepare_message
SendParts(message, prep, o) ==
    FinishSend(prep,
               IF prep.exc # NoExc THEN [trace |-> <<>>, exc |-> NoExc]
               ELSE PostParts(prepare_message_body(message.rendered, message_size_limit),
                              prep.val, RootId(message), 1, o))

\* send_message(message); message.rendered is self.md.convert(message.body)
send_message(message, cache, o) ==
    SendParts(message, _prepare_message(message, cache, o), o)

\* lines 454-455: a card to a room occupant goes to the room of the occupant
CardTo(to) ==
    IF IsRoomOccupant(to)
    THEN [to EXCEPT !.kind = "KchatRoom", !.id = to.channelid, !.name = to.room_name]
    ELSE to

\* lines 485-495, c being the create_post call
ExceptCard(c) ==
    IF c.res = "ok" THEN [trace |-> <<c>>, exc |-> NoExc]
    ELSE IF c.res \in {InvalidOrMissingParameters, NotEnoughPermissions,
                       ContentTooLarge, FeatureDisabled, NoAccessTokenProvided}
    THEN [trace |-> <<c, Call("log.exception", "send_card", c.res)>>, exc |-> NoExc]
    ELSE [trace |-> <<c>>, exc |-> c.res]

\* lines 457-495, to being card.to after line 455 and prep the outcome of
\* _prepare_message, which is called outside the try block
PostCard(to, prep, o) ==
    IF prep.exc # NoExc THEN Ret(prep.trace, prep.cache, prep.exc)
    ELSE Bind(ExceptCard(Call("create_post",
                              [channel_id |-> to.channelid, attachments |-> 1],
                              PostAnswer(1, o))), LAMBDA x :
            Ret(prep.trace \o x.trace, prep.cache, x.exc))

\* send_card(card)
send_card(card, cache, o) ==
    PostCard(CardTo(card.to),
             _prepare_message([card EXCEPT !.to = CardTo(card.to)], cache, o), o)

\* _kchat_upload(stream, channel_id): o.upload is the "file_infos" of the
\* response (the id of the first file-info, NoneV when the list is empty,
\* Absent when the response has none) or the fault of upload_file.  st is
\* the Stream that send_stream_request has just made, and the Stream as the
\* upload leaves it is in field stream.
_kchat_upload(st, channel_id, o) ==
    Bind(Call("upload_file", channel_id, o.upload), LAMBDA c :
        \* line 412: stream.accept(), then line 414 raises
        IF IsFault(o.upload)
        THEN [stream |-> [st EXCEPT !.status = "accepted"],
              trace |-> <<c, Call("log.exception", "upload", o.upload)>>, exc |-> NoExc]
        \* line 417: resp.get("file_infos")[0] of None or of an empty list
        ELSE IF o.upload = Absent
        THEN [stream |-> [st EXCEPT !.status = "accepted"],
              trace |-> <<c, Call("log.exception", "upload", "TypeError")>>, exc |-> NoExc]
        ELSE IF o.upload = NoneV
        THEN [stream |-> [st EXCEPT !.status = "accepted"],
              trace |-> <<c, Call("log.exception", "upload", "IndexError")>>, exc |-> NoExc]
        \* lines 417-419
        ELSE [stream |-> [status |-> "success", file_id |-> o.upload],
              trace |-> <<c>>, exc |-> NoExc])

\* send_stream_request(user, fsource, name): a new Stream, uploaded to the
\* channel of the user
send_stream_request(user, o) ==
    _kchat_upload([status |-> "pending", file_id |-> NoneV],
                  IF user.kind \in {"KchatPerson", "KchatRoomOccupant"}
                  THEN user.channelid ELSE user.id, o)

----------------------------------------------------------------------------
\* Inputs

Payload(kind, env) == [kind |-> kind, env |-> env]

Event(e) == [NoEnv EXCEPT !.event = e]

MembershipEnvs ==
    {[Event(e) EXCEPT !.user_id = u] :
        e \in {"user_added", "user_removed"}, u \in UserIds \cup {Absent}}

StatusEnvs ==
    {[Event("status_change") EXCEPT !.user_id = u, !.status = st] :
        u \in {"U1", Absent},
        st \in {"online", "away", "offline", "dnd", "busy", Absent}}

Posts ==
    {[message |-> "hi", user_id |-> u, id |-> "P1", type |-> t, root_id |-> r,
      file_ids |-> <<>>] :
        u \in {"", "U1"}, t \in {Absent, "system_add_remove"}, r \in {Absent, "", "R1"}}

MentionLists ==
    {<<>>, <<<<"@", "a">>>>, <<<<"U", "1">>>>, <<<<"~", "r">>>>,
     <<<<" ", "@", "a">>, <<"@", "g">>>>}

\* every "posted" envelope over the field values above
PostedEnvs ==
    {[event |-> "posted", team_id |-> t, channel_id |-> c, channel_type |-> ct,
      channel_name |-> "town", has_post |-> hp, post |-> p, user_id |-> u,
      has_mentions |-> hm, mentions |-> m, status |-> Absent] :
        t \in {""} \cup TeamIds, c \in {Absent, "C1"}, ct \in {"D", "O"},
        hp \in BOOLEAN, p \in Posts \cup {NoPost}, u \in {Absent, "", "U2"},
        hm \in BOOLEAN, m \in MentionLists}

WellFormedEnv(d) ==
    /\ d.has_post <=> d.post # NoPost
    /\ ~d.has_mentions => d.mentions = <<>>

\* the "posted" envelopes the connection-loop specification delivers
PostedSample ==
    {d \in PostedEnvs :
        /\ WellFormedEnv(d)
        /\ d.team_id = SessionTeam /\ d.channel_id = "C1" /\ d.channel_type = "O"
        /\ d.user_id \in {Absent, "U2"} /\ ~d.has_mentions
        /\ d.post \in {NoPost, [message |-> "hi", user_id |-> "U1", id |-> "P1",
                                type |-> Absent, root_id |-> "", file_ids |-> <<>>]}}

LoopPayloads ==
    {Payload("empty", NoEnv), Payload("malformed", NoEnv), Payload("object", NoEnv)}
    \cup {Payload("object", d) :
            d \in MembershipEnvs \cup StatusEnvs \cup PostedSample
                  \cup {Event(HELLO), Event("custom"), Event("typing")}}

Quiet == [user |-> [n \in Usernames |-> "U1"], channel |-> [n \in ChannelNames |-> "C1"],
          direct |-> "ok", post |-> "ok", status |-> "ok", raises |-> {}]

\* the plugin handlers registered for the event of envelope d
PluginsFor(d, handlers) ==
    IF d.event \in DOMAIN handlers
    THEN {h \in PluginHandlers : \E i \in 1..Len(handlers[d.event]) : handlers[d.event][i] = h}
    ELSE {}

\* The answers of the platform and of the plugin handlers that the dispatch
\* of envelope d can consult: lookups for the mentions of a "posted" event,
\* get_post for its thread root, the status update after a hello event
Answers(d, handlers) ==
    {[user |-> u, channel |-> c, direct |-> dc, post |-> gp, status |-> st, raises |-> r] :
        u  \in IF d.mentions # <<>> THEN [Usernames -> UserAnswers] ELSE {Quiet.user},
        c  \in IF d.mentions # <<>> THEN [ChannelNames -> ChannelAnswers] ELSE {Quiet.channel},
        dc \in IF d.mentions # <<>> THEN DirectAnswers ELSE {"ok"},
        gp \in IF d.post.root_id \notin {Absent, ""} THEN PostAnswers ELSE {"ok"},
        st \in IF d.event = HELLO THEN StatusAnswers ELSE {"ok"},
        r  \in SUBSET PluginsFor(d, handlers)}

----------------------------------------------------------------------------
\* Actions

Idle == op = "idle"

Observe(name, in, r) ==
    /\ op' = name
    /\ input' = in
    /\ invoked' = r.invoked
    /\ trace' = r.trace
    /\ exc' = r.exc
    /\ result' = NoneV
    /\ direct_cache' = r.cache

\* the caller has the result of the operation: the record of the call goes
Return ==
    /\ ~Idle
    /\ op' = "idle" /\ input' = <<>> /\ invoked' = <<>> /\ trace' = <<>>
    /\ exc' = NoExc
    /\ stream' = NoStream
    /\ result' = NoneV
    /\ UNCHANGED <<event_handlers, session, direct_cache>>

RegisterEvents == {"posted", "custom"}

Registered(handlers) ==
    (Len(handlers["posted"]) - 1)
    + (IF "custom" \in DOMAIN handlers THEN Len(handlers["custom"]) ELSE 0)

Register ==
    /\ Idle
    /\ Registered(event_handlers) < MaxRegistered
    /\ \E e \in RegisterEvents, h \in PluginHandlers :
          event_handlers' = register_handler(event_handlers, e, h)
    /\ UNCHANGED <<session, direct_cache, lastcall>>

\* serve_once, lines 305-329: driver, login, team id and own identity
ServeOnceLogin ==
    /\ Idle /\ pc = "idle" /\ exits < MaxSessions
    /\ \E t \in TeamIds : teamid' = t
    /\ bot_identifier' = SessionUser
    /\ pc' = "try"
    /\ UNCHANGED <<event_handlers, exits, disconnects, exit_cause, ret,
                   direct_cache, lastcall>>

\* control leaves the try block of serve_once
Leave(cause) ==
    LET l == LeaveTry(cause)
    IN  /\ pc' = "idle"
        /\ exits' = exits + 1
        /\ disconnects' = disconnects + l.disconnect_callback
        /\ exit_cause' = cause
        /\ ret' = l.ret
        /\ UNCHANGED <<event_handlers, teamid, bot_identifier, direct_cache,
                       lastcall>>

\* lines 333-338: init_websocket returns the loop
InitWebsocket ==
    /\ Idle /\ pc = "try"
    /\ pc' = "running"
    /\ UNCHANGED <<event_handlers, teamid, bot_identifier, exits, disconnects,
                   exit_cause, ret, direct_cache, lastcall>>

\* lines 333-338: init_websocket raises
InitWebsocketFault == Idle /\ pc = "try" /\ Leave("Exception")

\* line 339: run_forever returns, is interrupted, or raises
LoopStop      == Idle /\ pc = "running" /\ Leave("stop")
LoopInterrupt == Idle /\ pc = "running" /\ Leave("KeyboardInterrupt")
LoopFault     == Idle /\ pc = "running" /\ Leave("Exception")

\* the loop hands one payload to kchat_event_handler
Dispatch(payloads) ==
    /\ Idle /\ pc = "running"
    /\ \E p \in payloads : \E o \in Answers(p.env, event_handlers) :
          Observe("kchat_event_handler", p,
                  kchat_event_handler(p, event_handlers, direct_cache, o))
    /\ UNCHANGED <<event_handlers, session, stream>>

LoopEvent == Dispatch(LoopPayloads)

Init ==
    /\ event_handlers = DefaultHandlers
    /\ pc = "idle"
    /\ teamid = ""
    /\ bot_identifier = NoneV
    /\ exits = 0
    /\ disconnects = 0
    /\ exit_cause = NoneV
    /\ ret = NoneV
    /\ direct_cache = <<>>
    /\ op = "idle"
    /\ input = <<>>
    /\ invoked = <<>>
    /\ trace = <<>>
    /\ exc = NoExc
    /\ stream = NoStream
    /\ result = NoneV

Next ==
    \/ Register
    \/ ServeOnceLogin
    \/ InitWebsocket
    \/ InitWebsocketFault
    \/ LoopStop
    \/ LoopInterrupt
    \/ LoopFault
    \/ LoopEvent
    \/ Return

Spec == Init /\ [][Next]_vars

----------------------------------------------------------------------------
\* The message normalizer on its own: a session whose loop runs, with the
\* handlers of __init__, receives "posted" events of every shape

PostedPayloads == {Payload("object", d) : d \in {e \in PostedEnvs : WellFormedEnv(e)}}

NormalizerInit ==
    /\ event_handlers = DefaultHandlers
    /\ pc = "running"
    /\ teamid \in TeamIds
    /\ bot_identifier = SessionUser
    /\ exits = 0
    /\ disconnects = 0
    /\ exit_cause = NoneV
    /\ ret = NoneV
    /\ direct_cache = <<>>
    /\ op = "idle"
    /\ input = <<>>
    /\ invoked = <<>>
    /\ trace = <<>>
    /\ exc = NoExc
    /\ stream = NoStream
    /\ result = NoneV

PostedEvent == Dispatch(PostedPayloads)

NormalizerNext == PostedEvent \/ Return

NormalizerSpec == NormalizerInit /\ [][NormalizerNext]_vars

----------------------------------------------------------------------------
\* The outbound dispatcher on its own: the framework asks a session whose
\* loop runs to send messages, cards and files

\* the characters of a rendered body: a letter and the backquote
BodyAlphabet == {"a", Tick}

RECURSIVE Texts(_)
\* the texts of exactly n characters
Texts(n) ==
    IF n = 0 THEN {<<>>}
    ELSE {<<c>> \o t : c \in BodyAlphabet, t \in Texts(n - 1)}

Bodies == UNION {Texts(n) : n \in 0..MaxBody}

\* message.to / card.to / the user of a stream request.  name is the name a
\* room holds ("" when it holds none), room_name that of the room of an
\* occupant
Rooms     == {[kind |-> "KchatRoom", id |-> "C1", name |-> n, username |-> <<>>,
               channelid |-> "C1", room_name |-> ""] : n \in {"town", ""}}
Persons   == {[kind |-> "KchatPerson", id |-> "U1", name |-> "", username |-> <<"a">>,
               channelid |-> "D1", room_name |-> ""]}
Occupants == {[kind |-> "KchatRoomOccupant", id |-> "U1", name |-> "", username |-> u,
               channelid |-> "C1", room_name |-> n] :
                  u \in {<<"a">>, <<"@", "a">>}, n \in {"town", ""}}
Identifiers == Rooms \cup Persons \cup Occupants

\* message.parent: none, or a message whose extras hold or lack a root_id
Parents == {[has_parent |-> FALSE, parent_root |-> NoneV],
            [has_parent |-> TRUE,  parent_root |-> "R1"],
            [has_parent |-> TRUE,  parent_root |-> NoneV]}

Messages == {[to |-> to, rendered |-> b, has_parent |-> p.has_parent,
              parent_root |-> p.parent_root] :
                 to \in Identifiers, b \in Bodies, p \in Parents}

Cards == {[to |-> to] : to \in Identifiers}

PostFaults        == {InvalidOrMissingParameters, NotEnoughPermissions, ContentTooLarge,
                      FeatureDisabled, NoAccessTokenProvided, "ResourceNotFound"}
GetChannelAnswers == {"town", Absent, InvalidOrMissingParameters, NotEnoughPermissions}
UploadAnswers     == {"F1", NoneV, Absent, NotEnoughPermissions}

\* which of at most n create_post calls raises, and what: none, or call k
PostFailures(n) ==
    {[fail_at |-> 0, fault |-> "ok"]}
        \cup {[fail_at |-> k, fault |-> f] : k \in 1..n, f \in PostFaults}

\* The answers of the platform during one send to the identifier to, which
\* posts at most n times: only the calls the send can make are varied
SendAnswers(to, n) ==
    {[user |-> [x \in Usernames |-> u], direct |-> d, get_channel |-> g,
      fail_at |-> f.fail_at, fault |-> f.fault, upload |-> "F1"] :
        u \in IF IsRoomOccupant(to) THEN UserAnswers ELSE {"U1"},
        d \in IF IsRoomOccupant(to) THEN DirectAnswers ELSE {"ok"},
        g \in IF to.name = "" /\ to.kind # "KchatPerson" THEN GetChannelAnswers ELSE {"town"},
        f \in PostFailures(n)}

UploadOracles ==
    {[user |-> [x \in Usernames |-> "U1"], direct |-> "ok", get_channel |-> "town",
      fail_at |-> 0, fault |-> "ok", upload |-> u] : u \in UploadAnswers}

OutboundInit ==
    /\ event_handlers = DefaultHandlers
    /\ pc = "running"
    /\ teamid = SessionTeam
    /\ bot_identifier = SessionUser
    /\ exits = 0
    /\ disconnects = 0
    /\ exit_cause = NoneV
    /\ ret = NoneV
    /\ direct_cache = <<>>
    /\ op = "idle"
    /\ input = <<>>
    /\ invoked = <<>>
    /\ trace = <<>>
    /\ exc = NoExc
    /\ stream = NoStream
    /\ result = NoneV

\* the operation is over with outcome r, which names no callbacks
Sent(name, in, r) == Observe(name, in, Done(<<>>, r.trace, r.cache, r.exc))

SendMessage ==
    /\ Idle /\ pc = "running"
    /\ \E message \in Messages :
       \E o \in SendAnswers(message.to,
                            Len(prepare_message_body(message.rendered, message_size_limit))) :
          Sent("send_message", message, send_message(message, direct_cache, o))
    /\ UNCHANGED <<event_handlers, session, stream>>

SendCard ==
    /\ Idle /\ pc = "running"
    /\ \E card \in Cards : \E o \in SendAnswers(CardTo(card.to), 1) :
          Sent("send_card", card, send_card(card, direct_cache, o))
    /\ UNCHANGED <<event_handlers, session, stream>>

\* the outcome r of the upload is what the caller of send_stream_request has
Uploaded(user, o, r) ==
    /\ Sent("send_stream_request", [user |-> user, upload |-> o.upload],
            Ret(r.trace, direct_cache, r.exc))
    /\ stream' = r.stream

SendStreamRequest ==
    /\ Idle /\ pc = "running"
    /\ \E user \in Identifiers : \E o \in UploadOracles :
          Uploaded(user, o, send_stream_request(user, o))
    /\ UNCHANGED <<event_handlers, session>>

OutboundNext == SendMessage \/ SendCard \/ SendStreamRequest \/ Return

OutboundSpec == OutboundInit /\ [][OutboundNext]_vars

----------------------------------------------------------------------------
\* Identifier resolution on its own: the framework and the plugins resolve
\* texts and ask for direct channels, in any order, in one session

\* texts in the three forms, with and without surrounding blanks; "g" and
\* "x" are names the platform may not know
IdentifierTexts ==
    {<<"@", "a">>, <<" ", "@", "g">>, <<"~", "r">>, <<"~", "x", " ">>,
     <<"U", "1">>, <<"U", "2", " ">>, <<>>}

ResolveAnswers ==
    {[user |-> [x \in Usernames |-> u], channel |-> [x \in ChannelNames |-> c],
      direct |-> d] : u \in UserAnswers, c \in ChannelAnswers, d \in DirectAnswers}

\* the operation is over and returned r.val, or raised r.exc
Returned(name, in, r) ==
    /\ op' = name
    /\ input' = in
    /\ invoked' = <<>>
    /\ trace' = r.trace
    /\ exc' = r.exc
    /\ result' = r.val
    /\ direct_cache' = r.cache

BuildIdentifier ==
    /\ Idle
    /\ \E txtrep \in IdentifierTexts : \E o \in ResolveAnswers :
          Returned("build_identifier", txtrep,
                   build_identifier(txtrep, direct_cache, o))
    /\ UNCHANGED <<event_handlers, session, stream>>

GetDirectChannel ==
    /\ Idle
    /\ \E uid \in {userid, "U1"} : \E other_user_id \in {"U1", "U2"} :
       \E o \in {a \in ResolveAnswers : a.user["a"] = "U1" /\ a.channel["r"] = "C1"} :
          Returned("get_direct_channel", <<uid, other_user_id>>,
                   get_direct_channel(uid, other_user_id, direct_cache, o))
    /\ UNCHANGED <<event_handlers, session, stream>>

ResolverInit == OutboundInit

ResolverNext == BuildIdentifier \/ GetDirectChannel \/ Return

ResolverSpec == ResolverInit /\ [][ResolverNext]_vars

----------------------------------------------------------------------------
\* Room occupants compared with occupants and with plain users

ComparedUsers    == {"bot", "U1", "U2"}
ComparedChannels == {"C1", "C2"}

RoomOccupants ==
    {KchatRoomOccupant(t, u, c) : t \in TeamIds, u \in ComparedUsers, c \in ComparedChannels}

PlainUsers == {KchatPerson(u, c) : u \in ComparedUsers, c \in ComparedChannels}

Compare ==
    /\ Idle
    /\ \E self \in RoomOccupants : \E other \in RoomOccupants \cup PlainUsers :
          /\ op' = "__eq__"
          /\ input' = [self |-> self, other |-> other]
          /\ result' = __eq__(self, other).val
          /\ trace' = __eq__(self, other).trace
    /\ UNCHANGED <<event_handlers, session, direct_cache, invoked, exc, stream>>

EqualityInit == OutboundInit

EqualityNext == Compare \/ Return

EqualitySpec == EqualityInit /\ [][EqualityNext]_vars

----------------------------------------------------------------------------
\* The body chunker on its own: prepare_message_body applied to every body
\* of the model under every splitter limit up to two above the session's

SizeLimits == 1..(message_size_limit + 2)

ChunkerInit == OutboundInit

PrepareMessageBody ==
    /\ Idle
    /\ \E body \in Bodies : \E size_limit \in SizeLimits :
          /\ op' = "prepare_message_body"
          /\ input' = [body |-> body, size_limit |-> size_limit]
          /\ result' = prepare_message_body(body, size_limit)
    /\ UNCHANGED <<event_handlers, session, direct_cache, invoked, trace, exc, stream>>

ChunkerNext == PrepareMessageBody \/ Return

ChunkerSpec == ChunkerInit /\ [][ChunkerNext]_vars

----------------------------------------------------------------------------
\* Properties of the event dispatcher and the connection loop

Dispatched == op = "kchat_event_handler"

\* the envelope of the dispatched payload names an event type with handlers
Routed ==
    /\ Dispatched
    /\ input.kind = "object"
    /\ input.env.event \in DOMAIN event_handlers

\* number of entries of the trace t that are calls of c
Count(t, c) == Cardinality({i \in 1..Len(t) : t[i].call = c})

\* C1: for an event whose type has handlers h1..hn registered (in this
\* order), kchat_event_handler invokes h1, ..., hn, each once and in this
\* order, also when some of them raise, and no exception leaves it.
C1_EveryHandlerInOrder ==
    Routed =>
        /\ Len(invoked) = Len(event_handlers[input.env.event])
        /\ \A i \in 1..Len(invoked) :
              invoked[i].handler = event_handlers[input.env.event][i]
        /\ exc = NoExc

\* a handler raised and the handlers registered after it were invoked
C1_Witness ==
    /\ Routed
    /\ Len(invoked) = 3
    /\ invoked[1].exc # NoExc
    /\ invoked[2].exc # NoExc
    /\ invoked[3].exc = NoExc

\* C2: control leaves the try block of serve_once (run_forever returned, was
\* interrupted or raised, or init_websocket raised) exactly in the steps that
\* invoke disconnect_callback, which invoke it once; no step that leaves the
\* loop running invokes it.
C2_DisconnectOnEveryExit ==
    [][/\ (pc \in {"try", "running"} /\ pc' = "idle")
            => disconnects' = disconnects + 1
       /\ disconnects' # disconnects
            => (pc \in {"try", "running"} /\ pc' = "idle")
       /\ pc' = "running" => disconnects' = disconnects]_vars

\* two sessions have ended, the last one by a fault, each with its callback
C2_Witness ==
    /\ pc = "idle"
    /\ exit_cause = "Exception"
    /\ exits = 2
    /\ disconnects = 2

\* C5: a payload that is no JSON is dropped: no handler is invoked and no
\* exception leaves kchat_event_handler.
C5_MalformedDropped ==
    (Dispatched /\ input.kind = "malformed")
        => (invoked = <<>> /\ exc = NoExc)

\* C6: kchat_event_handler does nothing - no handler, no callback, no
\* platform call, no exception, registry and cache as before - for an
\* empty payload, an envelope without "event" and an event type without
\* handlers.
C6_NoOp ==
    [][(/\ op' = "kchat_event_handler"
        /\ op = "idle"
        /\ \/ input'.kind = "empty"
           \/ /\ input'.kind = "object"
              /\ \/ input'.env.event = Absent
                 \/ input'.env.event \notin DOMAIN event_handlers)
       => /\ invoked' = <<>>
          /\ \A i \in 1..Len(trace') : trace'[i].call = "log.debug"
          /\ exc' = NoExc
          /\ event_handlers' = event_handlers
          /\ direct_cache' = direct_cache]_vars

\* an event of a type nobody handles was dispatched while plugins had
\* registered handlers for other types
C6_Witness ==
    /\ Dispatched
    /\ input.kind = "object"
    /\ input.env.event = "typing"
    /\ "custom" \in DOMAIN event_handlers
    /\ invoked = <<>>
    /\ exc = NoExc

Membership ==
    /\ Routed
    /\ input.env.event \in {"user_added", "user_removed"}

\* C7: a user_added event invokes callback_room_joined once when its user_id
\* is the bot's own and not at all otherwise; a user_removed event does the
\* same with callback_room_left; neither invokes the other callback.
C7_OwnMembershipOnly ==
    Membership =>
        /\ Count(trace, "callback_room_joined")
             = (IF input.env.event = "user_added" /\ input.env.user_id = bot_identifier
                THEN 1 ELSE 0)
        /\ Count(trace, "callback_room_left")
             = (IF input.env.event = "user_removed" /\ input.env.user_id = bot_identifier
                THEN 1 ELSE 0)

\* the bot was added to a channel and the framework was told
C7_Witness ==
    /\ Membership
    /\ input.env.event = "user_added"
    /\ input.env.user_id = bot_identifier
    /\ Count(trace, "callback_room_joined") = 1

----------------------------------------------------------------------------
\* Properties of the message normalizer

Posted ==
    /\ Routed
    /\ input.env.event = "posted"

\* the trace entries of t that are calls of c, in order
RECURSIVE Calls(_, _)
Calls(t, c) ==
    IF t = <<>> THEN <<>>
    ELSE IF Head(t).call = c THEN <<Head(t)>> \o Calls(Tail(t), c)
    ELSE Calls(Tail(t), c)

PlatformCalls ==
    {"get_user_by_username", "get_channel_by_name", "create_direct_message_channel",
     "get_post", "get_channel", "create_post", "upload_file", "update_user_status"}

\* C3: a "posted" event that passes the team check, has a channel id, no
\* nested post and a non-empty top-level user_id yields one callback_message
\* whose message has that user_id as its sender.  (Stated for events without
\* mentions, so that no lookup of the platform can fail.)
C3_TopLevelSenderDelivered ==
    (/\ Posted
     /\ input.env.team_id \in {"", teamid}
     /\ input.env.channel_id # Absent
     /\ ~input.env.has_post
     /\ input.env.user_id \notin {Absent, ""}
     /\ ~input.env.has_mentions)
        => /\ Count(trace, "callback_message") = 1
           /\ Calls(trace, "callback_message")[1].arg.frm.userid = input.env.user_id

\* C4: a "posted" event whose team_id is not empty and not the session's
\* reaches no callback and no platform call; one whose team_id is empty is
\* never dropped by the team check (the log.info of line 149 is not made),
\* whatever the session's team id.
C4_TeamCheck ==
    Posted =>
        /\ (input.env.team_id \notin {"", teamid})
              => /\ Count(trace, "callback_message") = 0
                 /\ Count(trace, "callback_mention") = 0
                 /\ \A i \in 1..Len(trace) : trace[i].call \notin PlatformCalls
        /\ (input.env.team_id = "")
              => \A i \in 1..Len(trace) :
                    ~(trace[i].call = "log.info" /\ trace[i].arg = "another team")

\* a direct message with an empty team_id went through to the framework
C4_Witness ==
    /\ Posted
    /\ input.env.team_id = ""
    /\ input.env.channel_type = "D"
    /\ Count(trace, "callback_message") = 1

----------------------------------------------------------------------------
\* Properties of the outbound dispatcher

RECURSIVE Select(_, _)
\* the calls of operation c in the trace t, in order
Select(t, c) ==
    IF t = <<>> THEN <<>>
    ELSE IF Head(t).call = c THEN <<Head(t)>> \o Select(Tail(t), c)
    ELSE Select(Tail(t), c)

Raised(t, faults) ==
    \E i \in 1..Len(t) : t[i].call # "log.exception" /\ t[i].res \in faults

Logged(t) == \E i \in 1..Len(t) : t[i].call = "log.exception"

\* C8: no recognized send fault leaves the outbound dispatcher: when a
\* platform call of send_message (destination resolution or post creation)
\* raised bad-parameters or insufficient-permission, or the post creation of
\* send_card raised one of the five faults it names, the fault is logged
\* and the caller sees no exception
C8_RecognizedFaultsCaught ==
    /\ (op = "send_message"
            /\ Raised(trace, {InvalidOrMissingParameters, NotEnoughPermissions}))
        => (exc = NoExc /\ Logged(trace))
    /\ (op = "send_card"
            /\ Raised(Select(trace, "create_post"),
                      {InvalidOrMissingParameters, NotEnoughPermissions, ContentTooLarge,
                       FeatureDisabled, NoAccessTokenProvided}))
        => (exc = NoExc /\ Logged(trace))

\* C9: when the upload of a stream request is over, the stream is
\* successful with the file id of the platform if the upload answered a
\* non-empty file-info list, and failed if it answered none or raised; it
\* is never left accepted only, and the caller sees no exception
C9_StreamSettled ==
    op = "send_stream_request" =>
        /\ exc = NoExc
        /\ stream.status \in {"success", "error"}
        /\ IF input.upload \in {NoneV, Absent} \/ IsFault(input.upload)
           THEN stream.status = "error"
           ELSE stream.status = "success" /\ stream.file_id = input.upload

CreatePosts == Select(trace, "create_post")

\* C10: the create_post calls of one send_message carry the parts of the
\* chunked body in order, each at most once: call i carries part i, with the
\* channel id and the thread-root id of the first call; all parts are posted
\* unless a call raised
C10_PartsInOrder ==
    op = "send_message" =>
        Bind(prepare_message_body(input.rendered, message_size_limit), LAMBDA parts :
            /\ Len(CreatePosts) <= Len(parts)
            /\ \A i \in 1..Len(CreatePosts) :
                  /\ CreatePosts[i].arg.message = parts[i]
                  /\ CreatePosts[i].arg.channel_id = CreatePosts[1].arg.channel_id
                  /\ CreatePosts[i].arg.root_id = CreatePosts[1].arg.root_id
                  /\ CreatePosts[i].arg.root_id = RootId(input)
            /\ \A i \in 1..Len(CreatePosts) - 1 : CreatePosts[i].res = "ok"
            /\ (Len(CreatePosts) < Len(parts)
                  => \/ CreatePosts = <<>> /\ (exc # NoExc \/ Logged(trace))
                     \/ CreatePosts # <<>> /\ CreatePosts[Len(CreatePosts)].res # "ok"))

\* a body of three parts was posted whole under a thread root
C10_Witness ==
    /\ op = "send_message"
    /\ exc = NoExc
    /\ Len(CreatePosts) = 3
    /\ \A i \in 1..3 : CreatePosts[i].res = "ok" /\ CreatePosts[i].arg.root_id = "R1"
    /\ CreatePosts[1].arg.message # CreatePosts[2].arg.message

----------------------------------------------------------------------------
\* Properties of the body chunker

Chunked == op = "prepare_message_body"

\* C11: every part prepare_message_body returns holds an even number of
\* fence markers, whether the body fit in one part or was split
C11_EvenFences ==
    Chunked => \A i \in 1..Len(result) : CountFence(result[i]) % 2 = 0

\* a split body one part of which was given both an opening and a closing
\* fence
C11_Witness ==
    /\ Chunked
    /\ Len(result) >= 2
    /\ \E i \in 1..Len(result) :
          Len(result[i]) = input.size_limit + Len(OpenFence) + Len(CloseFence)

\* C12: the headroom between the cap of the platform and the splitter limit
\* covers the markers added to one part: no part is longer than the
\* splitter limit plus that headroom
C12_PartsWithinHardCap ==
    Chunked => \A i \in 1..Len(result) :
                  Len(result[i]) <= input.size_limit + (hard_limit - limit)

----------------------------------------------------------------------------
\* Properties of identifier resolution

Resolved == op = "build_identifier"

\* the text build_identifier works on, line 282
Stripped == strip(input)

Form == IF startswith(Stripped, "~") THEN "room"
        ELSE IF startswith(Stripped, "@") THEN "username" ELSE "id"

\* the lookup of the text answered, and answered nothing
LookupEmpty(c, nothing) ==
    \E i \in 1..Len(trace) : trace[i].call = c /\ trace[i].res = nothing

\* an identifier object of the class, None being no object
IsRoomOf(v)   == v.kind = "KchatRoom"
IsPersonOf(v) == v.kind = "KchatPerson"

\* C13 as stated: build_identifier never returns None; "~" yields a room
\* or fails with room-does-not-exist; "@" yields a user, or fails with
\* user-does-not-exist when the lookup returns nothing; any other text
\* yields a user whose id is the text, and no username lookup is made
C13_AsStated ==
    Resolved =>
        /\ exc = NoExc => IsRoomOf(result) \/ IsPersonOf(result)
        /\ Form = "room" =>
              \/ exc = NoExc /\ IsRoomOf(result)
              \/ exc = "RoomDoesNotExistError"
        /\ Form = "username" =>
              IF LookupEmpty("get_user_by_username", NoneV)
              THEN exc = "UserDoesNotExistError"
              ELSE exc = NoExc /\ IsPersonOf(result)
        /\ Form = "id" =>
              /\ exc = NoExc /\ IsPersonOf(result) /\ result.userid = Str(Stripped)
              /\ Select(trace, "get_user_by_username") = <<>>

\* C13, amended: build_identifier returns a room for "~" and a user for any
\* other text, never None; it fails with room-does-not-exist when the
\* channel lookup answers no id or the direct channel to the user cannot
\* be made, with user-does-not-exist when the username lookup answers
\* nothing, and with the fault of the platform when a lookup raises one;
\* a text of neither form is the user id, and no username lookup is made
C13_NeverUnresolved ==
    Resolved =>
        /\ exc = NoExc =>
              IF Form = "room" THEN IsRoomOf(result) ELSE IsPersonOf(result)
        /\ exc = NoExc /\ Form = "id" => result.userid = Str(Stripped)
        /\ Form = "room" /\ LookupEmpty("get_channel_by_name", Absent)
              => exc = "RoomDoesNotExistError"
        /\ Form = "username" /\ LookupEmpty("get_user_by_username", NoneV)
              => exc = "UserDoesNotExistError"
        /\ Form = "id" => Select(trace, "get_user_by_username") = <<>>
        /\ exc # NoExc =>
              \/ exc = "UserDoesNotExistError"
                    /\ LookupEmpty("get_user_by_username", NoneV)
              \/ exc = "RoomDoesNotExistError"
                    /\ \/ LookupEmpty("get_channel_by_name", Absent)
                       \/ Raised(Select(trace, "create_direct_message_channel"),
                                 {InvalidOrMissingParameters, NotEnoughPermissions})
              \/ Raised(Select(trace, "get_user_by_username")
                            \o Select(trace, "get_channel_by_name"), {exc})

\* "@g" was resolved while the platform knew no such user
C13_Witness ==
    /\ Resolved
    /\ Form = "username"
    /\ LookupEmpty("get_user_by_username", NoneV)
    /\ exc = "UserDoesNotExistError"
    /\ result = NoneV

Cached(cache, key) == CacheIndex(cache, key) # 0

\* the successful create_direct_message_channel calls of the trace t
Created(t) ==
    {i \in 1..Len(t) : t[i].call = "create_direct_message_channel" /\ t[i].res = "ok"}

\* C17: while the cache holds every pair asked for (at most 1024 pairs), the
\* platform makes the direct channel of a pair at most once: an entry of
\* the cache stays, a call for a pair in the cache returns the channel of
\* the entry without a platform call, and a channel the platform has just
\* made is for a pair that was not in the cache and is in it afterwards
C17_CreatedOncePerPair ==
    [][/\ \A i \in 1..Len(direct_cache) :
             \E j \in 1..Len(direct_cache') : direct_cache'[j] = direct_cache[i]
       /\ (op' = "get_direct_channel" /\ Cached(direct_cache, input'))
             => /\ trace' = <<>>
                /\ exc' = NoExc
                /\ result' = direct_cache[CacheIndex(direct_cache, input')].value
       /\ \A i \in Created(trace') :
             /\ ~Cached(direct_cache, trace'[i].arg)
             /\ Cached(direct_cache', trace'[i].arg)]_vars

\* a second call for a pair was answered from the cache
C17_Witness ==
    /\ op = "get_direct_channel"
    /\ trace = <<>>
    /\ exc = NoExc
    /\ result = DirectId(input[1], input[2])
    /\ Cached(direct_cache, input)
    /\ Len(direct_cache) >= 2

----------------------------------------------------------------------------
\* Destinations of send_message

SentMessage == op = "send_message"

\* the user id the username lookup of the send answered
LookedUp == Select(trace, "get_user_by_username")[1].res

\* C14: every post of a message to a room occupant goes to the direct
\* channel of the bot and the user of the occupant, which get_direct_channel
\* holds, and never to the room of the occupant; every post of a group
\* message goes to the channel id of the room, and every post of a message
\* to a plain user to the direct-channel id of that user
C14_Destination ==
    SentMessage => \A i \in 1..Len(CreatePosts) :
        IF IsRoom(input.to) THEN CreatePosts[i].arg.channel_id = input.to.id
        ELSE IF IsRoomOccupant(input.to)
        THEN /\ Select(trace, "get_user_by_username") # <<>>
             /\ CreatePosts[i].arg.channel_id = DirectId(userid, LookedUp)
             /\ CreatePosts[i].arg.channel_id # input.to.channelid
             /\ Cached(direct_cache, <<userid, LookedUp>>)
             /\ direct_cache[CacheIndex(direct_cache, <<userid, LookedUp>>)].value
                   = CreatePosts[i].arg.channel_id
        ELSE CreatePosts[i].arg.channel_id = input.to.channelid

\* a message to a room occupant was posted in two parts
C14_Witness ==
    /\ SentMessage
    /\ IsRoomOccupant(input.to)
    /\ exc = NoExc
    /\ Len(CreatePosts) = 2
    /\ \A i \in 1..2 : CreatePosts[i].res = "ok"

----------------------------------------------------------------------------
\* Properties of the presence handler

\* a status_change event that carries its user_id and its status
StatusChanged ==
    /\ Routed
    /\ input.env.event = "status_change"
    /\ input.env.user_id # Absent
    /\ input.env.status # Absent

Presences == Select(trace, "callback_presence")

\* C15: a status_change event invokes the presence callback once, with the
\* identifier of its user_id and the status of its status string: online is
\* ONLINE, away AWAY, offline OFFLINE, dnd DND, and any other string ONLINE
\* with an error logged
C15_PresenceMapped ==
    StatusChanged =>
        /\ Len(Presences) = 1
        /\ Presences[1].arg.identifier = input.env.user_id
        /\ Presences[1].arg.status =
              (CASE input.env.status = "online"  -> ONLINE
                 [] input.env.status = "away"    -> AWAY
                 [] input.env.status = "offline" -> OFFLINE
                 [] input.env.status = "dnd"     -> DND
                 [] OTHER                        -> ONLINE)
        /\ Count(trace, "log.error") =
              (IF input.env.status \in {"online", "away", "offline", "dnd"} THEN 0 ELSE 1)
        /\ exc = NoExc

\* the status "busy" was announced as ONLINE and logged
C15_Witness ==
    /\ StatusChanged
    /\ input.env.status = "busy"
    /\ Len(Presences) = 1
    /\ Presences[1].arg.status = ONLINE
    /\ Count(trace, "log.error") = 1

----------------------------------------------------------------------------
\* Properties of KchatRoomOccupant

Compared == op = "__eq__"

\* C16: two room occupants are equal exactly when their room ids are the
\* same and their user ids are the same, so that an occupant equals itself
\* and the comparison of two occupants gives the same either way round; an
\* occupant never equals a value that is no RoomOccupant
C16_OccupantEquality ==
    Compared =>
        IF IsRoomOccupantObject(input.other)
        THEN /\ result = (/\ input.self.room.id = input.other.room.id
                          /\ input.self.userid = input.other.userid)
             /\ __eq__(input.other, input.self).val = result
             /\ __eq__(input.self, input.self).val
        ELSE result = FALSE

\* two occupants of different rooms with one user id were found unequal
C16_Witness ==
    /\ Compared
    /\ IsRoomOccupantObject(input.other)
    /\ input.self.userid = input.other.userid
    /\ input.self.room.id # input.other.room.id
    /\ result = FALSE

----------------------------------------------------------------------------
\* More properties of the message normalizer

MessageCallbacks == Select(trace, "callback_message")
MentionCallbacks == Select(trace, "callback_mention")

\* no sender id: no top-level user_id, and no user id in a nested post
NoSender ==
    /\ input.env.user_id \in {Absent, ""}
    /\ ~input.env.has_post \/ input.env.post.user_id = ""

\* C18: a "posted" event without a channel id, or without any sender id, or
\* whose nested post is of the system member add/remove type, is dropped
\* whole: no message callback, no mention callback, no platform call
C18_Dropped ==
    (/\ Posted
     /\ \/ input.env.channel_id = Absent
        \/ NoSender
        \/ input.env.has_post /\ input.env.post.type = "system_add_remove")
        => /\ MessageCallbacks = <<>>
           /\ MentionCallbacks = <<>>
           /\ \A i \in 1..Len(trace) : trace[i].call \notin PlatformCalls

\* an event of the session's team with a channel id and mentions, whose
\* post has an empty user id, was logged and dropped
C18_Witness ==
    /\ Posted
    /\ input.env.team_id = teamid
    /\ input.env.channel_id # Absent
    /\ input.env.has_post /\ input.env.post.type = Absent
    /\ input.env.mentions # <<>>
    /\ NoSender
    /\ \E i \in 1..Len(trace) : trace[i].call = "log.error" /\ trace[i].arg = "no userid"
    /\ MessageCallbacks = <<>>

\* a lookup made for a mention answered nothing or raised
MentionFailed ==
    \/ LookupEmpty("get_user_by_username", NoneV)
    \/ LookupEmpty("get_channel_by_name", Absent)
    \/ Raised(Select(trace, "get_user_by_username") \o Select(trace, "get_channel_by_name")
                \o Select(trace, "create_direct_message_channel"),
              {InvalidOrMissingParameters, NotEnoughPermissions})

\* position of the first call of c in the trace
First(c) == CHOOSE i \in 1..Len(trace) :
                trace[i].call = c /\ \A j \in 1..(i - 1) : trace[j].call # c

\* C19: a "posted" event invokes the message callback at most once, and the
\* mention callback exactly when the message callback was invoked and the
\* list of resolved mentions is not empty: then once, after the message
\* callback, with the same message and one identifier for each mention; when
\* a mention cannot be resolved neither callback is invoked
C19_Callbacks ==
    Posted =>
        /\ Len(MessageCallbacks) <= 1
        /\ Len(MentionCallbacks) =
              (IF Len(MessageCallbacks) = 1 /\ input.env.mentions # <<>> THEN 1 ELSE 0)
        /\ MentionCallbacks # <<>> =>
              /\ First("callback_message") < First("callback_mention")
              /\ MentionCallbacks[1].arg.msg = MessageCallbacks[1].arg
              /\ Len(MentionCallbacks[1].arg.mentions) = Len(input.env.mentions)
              /\ \A i \in 1..Len(input.env.mentions) :
                    MentionCallbacks[1].arg.mentions[i].kind =
                       (IF startswith(strip(input.env.mentions[i]), "~")
                        THEN "KchatRoom" ELSE "KchatPerson")
        /\ MentionFailed => MessageCallbacks = <<>> /\ MentionCallbacks = <<>>

\* a message with two mentions reached both callbacks
C19_Witness ==
    /\ Posted
    /\ Len(input.env.mentions) = 2
    /\ Len(MessageCallbacks) = 1
    /\ Len(MentionCallbacks) = 1
    /\ Len(MentionCallbacks[1].arg.mentions) = 2

\* the thread root of the nested post, line 190
RootOf(post) == IF post.root_id = Absent THEN "" ELSE post.root_id

GetPosts == Select(trace, "get_post")

\* C20: a "posted" event whose post has a root_id that is not empty reaches
\* the message callback only after get_post answered for that root_id, and
\* with the answer as parent; when the root_id is empty or absent get_post is
\* not called and the message has no parent; when get_post raises, the
\* message callback is not invoked
C20_Parent ==
    (Posted /\ input.env.has_post) =>
        IF RootOf(input.env.post) = ""
        THEN /\ GetPosts = <<>>
             /\ \A i \in 1..Len(MessageCallbacks) : MessageCallbacks[i].arg.parent = NoneV
        ELSE /\ \A i \in 1..Len(MessageCallbacks) :
                   /\ GetPosts # <<>>
                   /\ GetPosts[1].arg = RootOf(input.env.post)
                   /\ GetPosts[1].res = "ok"
                   /\ First("get_post") < First("callback_message")
                   /\ MessageCallbacks[i].arg.parent = RootOf(input.env.post)
             /\ Raised(GetPosts, PostAnswers \ {"ok"})
                   => MessageCallbacks = <<>> /\ MentionCallbacks = <<>>

\* a reply in a thread was delivered with its parent
C20_Witness ==
    /\ Posted /\ input.env.has_post
    /\ RootOf(input.env.post) = "R1"
    /\ Len(GetPosts) = 1 /\ GetPosts[1].res = "ok"
    /\ Len(MessageCallbacks) = 1
    /\ MessageCallbacks[1].arg.parent = "R1"

----------------------------------------------------------------------------
\* Properties of the hello handler

Hello == Routed /\ input.env.event = HELLO

\* C21: a subscription-succeeded event makes the three steps in this order:
\* connect_callback, then the presence callback with the identity of the bot
\* and ONLINE, then the status update of the platform; each is made once, so
\* none is made before or without the ones that precede it
C21_HelloOrder ==
    Hello =>
        /\ Count(trace, "connect_callback") = 1
        /\ Len(Presences) = 1
        /\ Count(trace, "update_user_status") = 1
        /\ Presences[1].arg = [identifier |-> bot_identifier, status |-> ONLINE]
        /\ First("connect_callback") < First("callback_presence")
        /\ First("callback_presence") < First("update_user_status")

\* the platform refused the status update after both callbacks were made
C21_Witness ==
    /\ Hello
    /\ Count(trace, "connect_callback") = 1
    /\ Len(Presences) = 1
    /\ Raised(Select(trace, "update_user_status"), {NotEnoughPermissions})
    /\ First("callback_presence") < First("update_user_status")

----------------------------------------------------------------------------
\* Failure of a part of a message

RecognizedSendFaults == {InvalidOrMissingParameters, NotEnoughPermissions}

\* C22: the parts one send_message has posted are the first parts of the
\* chunked body, as many as there are create_post calls; a create_post that
\* raises a recognized fault is the last call of the send, so that no part
\* after it is posted, and the fault is logged and kept from the caller
C22_PrefixAfterFailure ==
    SentMessage =>
        /\ Len(CreatePosts)
              <= Len(prepare_message_body(input.rendered, message_size_limit))
        /\ [i \in 1..Len(CreatePosts) |-> CreatePosts[i].arg.message]
              = SubSeq(prepare_message_body(input.rendered, message_size_limit),
                       1, Len(CreatePosts))
        /\ \A k \in 1..Len(CreatePosts) :
              CreatePosts[k].res \in RecognizedSendFaults
                 => /\ k = Len(CreatePosts)
                    /\ \A j \in 1..(k - 1) : CreatePosts[j].res = "ok"
                    /\ exc = NoExc
                    /\ Logged(trace)

\* the second of three parts was refused and the third was not posted
C22_Witness ==
    /\ SentMessage
    /\ Len(prepare_message_body(input.rendered, message_size_limit)) = 3
    /\ Len(CreatePosts) = 2
    /\ CreatePosts[1].res = "ok"
    /\ CreatePosts[2].res = NotEnoughPermissions
    /\ exc = NoExc

----------------------------------------------------------------------------
\* Failure of get_direct_channel

DirectCalls(t) == Select(t, "create_direct_message_channel")

\* C23: a get_direct_channel call that fails leaves the cache as it was,
\* without an entry for its pair; and a call for a pair that has no entry
\* always asks the platform, succeeding when the platform answers: a
\* failure is never served from the cache
C23_FailureNotCached ==
    [][op' = "get_direct_channel" =>
          /\ exc' = "RoomDoesNotExistError" =>
                /\ direct_cache' = direct_cache
                /\ ~Cached(direct_cache', input')
                /\ Raised(DirectCalls(trace'),
                          {InvalidOrMissingParameters, NotEnoughPermissions})
          /\ ~Cached(direct_cache, input') =>
                /\ Len(DirectCalls(trace')) = 1
                /\ DirectCalls(trace')[1].arg = input'
                /\ DirectCalls(trace')[1].res = "ok" =>
                      /\ exc' = NoExc
                      /\ result' = DirectId(input'[1], input'[2])]_vars

\* a call failed while the cache held the channels of other pairs
C23_Witness ==
    /\ op = "get_direct_channel"
    /\ exc = "RoomDoesNotExistError"
    /\ Len(DirectCalls(trace)) = 1
    /\ ~Cached(direct_cache, input)
    /\ Len(direct_cache) >= 1

====
